---- MODULE Spec2Model ----
(***************************************************************************)
(* PDFer: the recent-documents registry (interface.rs), the callbacks that *)
(* main.rs registers on the shared Arc<Mutex<FileManager>>, and the        *)
(* database.json snapshot read at startup and written at close.            *)
(*                                                                         *)
(* Text (String, &str) is a sequence of one-character strings.  A u64 is a *)
(* sequence of four 16-bit limbs, most significant first, so that the full *)
(* 64-bit range is representable and `as u16` is the last limb.            *)
(***************************************************************************)
EXTENDS Integers, Sequences, FiniteSets, TLC

(***************************************************************************)
(* Bounds of the model.                                                    *)
(***************************************************************************)
MaxFiles == 2        \* longest registry the model lets an append produce
MaxPages == 2        \* largest page count of a document on disk
NumThreads == 2      \* callbacks that may be requested concurrently
MaxDigits == 10         \* the longest new_size handed to on_set_font_size

\* The member of a singleton set.  Only({e(v) : v \in {x}}) is e(x) with x
\* evaluated once, however often e uses it.
Only(S) == CHOOSE r \in S : TRUE

(***************************************************************************)
(* u64 arithmetic (FileInfo.last_read, FileInfo.page_num, the page cursor) *)
(***************************************************************************)
LimbBase == 2 ^ 16

U64Zero == <<0, 0, 0, 0>>

U64Max == <<65535, 65535, 65535, 65535>>

\* a small natural number (below 2^31) as a u64
U64Of(n) == <<0, 0, n \div LimbBase, n % LimbBase>>

\* a < b on u64
U64Less(a, b) ==
    \E i \in 1..4 : a[i] < b[i] /\ \A j \in 1..(i - 1) : a[j] = b[j]

\* x + 1 modulo 2^64
U64Succ(x) ==
    IF x[4] < LimbBase - 1 THEN <<x[1], x[2], x[3], x[4] + 1>>
    ELSE IF x[3] < LimbBase - 1 THEN <<x[1], x[2], x[3] + 1, 0>>
    ELSE IF x[2] < LimbBase - 1 THEN <<x[1], x[2] + 1, 0, 0>>
    ELSE IF x[1] < LimbBase - 1 THEN <<x[1] + 1, 0, 0, 0>>
    ELSE U64Zero

\* x - 1, for x > 0
U64Pred(x) ==
    IF x[4] > 0 THEN <<x[1], x[2], x[3], x[4] - 1>>
    ELSE IF x[3] > 0 THEN <<x[1], x[2], x[3] - 1, LimbBase - 1>>
    ELSE IF x[2] > 0 THEN <<x[1], x[2] - 1, LimbBase - 1, LimbBase - 1>>
    ELSE <<x[1] - 1, LimbBase - 1, LimbBase - 1, LimbBase - 1>>

\* x divided by ten: quotient and remainder, by long division over the limbs
U64DivMod10(x) ==
    LET c1 == x[1]
        c2 == (c1 % 10) * LimbBase + x[2]
        c3 == (c2 % 10) * LimbBase + x[3]
        c4 == (c3 % 10) * LimbBase + x[4]
    IN  [quot |-> <<c1 \div 10, c2 \div 10, c3 \div 10, c4 \div 10>>,
         rem  |-> c4 % 10]

\* x * 10 + d, with the overflow out of 64 bits reported
U64MulAdd10(x, d) ==
    LET p4 == x[4] * 10 + d
        p3 == x[3] * 10 + (p4 \div LimbBase)
        p2 == x[2] * 10 + (p3 \div LimbBase)
        p1 == x[1] * 10 + (p2 \div LimbBase)
    IN  [val |-> <<p1 % LimbBase, p2 % LimbBase, p3 % LimbBase, p4 % LimbBase>>,
         overflow |-> p1 >= LimbBase]

(***************************************************************************)
(* Characters and decimal digits                                           *)
(***************************************************************************)
Quote == "\""

Backslash == "\\"

Digits == <<"0", "1", "2", "3", "4", "5", "6", "7", "8", "9">>

DigitChar(d) == Digits[d + 1]

IsDigit(ch) == \E d \in 0..9 : Digits[d + 1] = ch

DigitValue(ch) == CHOOSE d \in 0..9 : Digits[d + 1] = ch

(***************************************************************************)
(* FileInfo (interface.rs:8-13) and its JSON form.  main.rs:373 writes the *)
(* registry with serde_json::to_string and main.rs:41 reads it back with   *)
(* serde_json::from_str; both are modelled character by character.         *)
(***************************************************************************)
FileInfo(name, filepath, last_read, page_num) ==
    [name |-> name, filepath |-> filepath,
     last_read |-> last_read, page_num |-> page_num]

\* a record of empty strings and zeros
EmptyFileInfo == FileInfo(<<>>, <<>>, U64Zero, U64Zero)

NameKey == <<"n", "a", "m", "e">>

FilepathKey == <<"f", "i", "l", "e", "p", "a", "t", "h">>

LastReadKey == <<"l", "a", "s", "t", "_", "r", "e", "a", "d">>

PageNumKey == <<"p", "a", "g", "e", "_", "n", "u", "m">>

FieldKeys == {NameKey, FilepathKey, LastReadKey, PageNumKey}

Whitespace == {" ", "\n", "\t", "\r"}

\* the characters a JSON string may not hold unescaped
ControlChars == {"\n", "\t", "\r"}

\* a serialiser that writes every character as it is
EscapeCharRaw(ch) == <<ch>>

\* one character of a string as serde_json writes it
EscapeChar(ch) ==
    IF ch = Quote THEN <<Backslash, Quote>>
    ELSE IF ch = Backslash THEN <<Backslash, Backslash>>
    ELSE IF ch = "\n" THEN <<Backslash, "n">>
    ELSE IF ch = "\t" THEN <<Backslash, "t">>
    ELSE IF ch = "\r" THEN <<Backslash, "r">>
    ELSE <<ch>>

RECURSIVE EscapeText(_)
EscapeText(s) ==
    IF s = <<>> THEN <<>> ELSE EscapeChar(Head(s)) \o EscapeText(Tail(s))

\* a string as a JSON string literal
FormatString(s) == <<Quote>> \o EscapeText(s) \o <<Quote>>

RECURSIVE FormatDigits(_)
FormatDigits(x) ==
    IF x = U64Zero THEN <<>>
    ELSE Only({Append(FormatDigits(qr.quot), DigitChar(qr.rem)) :
                  qr \in {U64DivMod10(x)}})

\* a u64 in decimal
FormatU64(x) == IF x = U64Zero THEN <<"0">> ELSE FormatDigits(x)

\* one record, its fields in declaration order (interface.rs:8-13)
FormatFileInfo(f) ==
    <<"{">> \o FormatString(NameKey) \o <<":">> \o FormatString(f.name)
    \o <<",">> \o FormatString(FilepathKey) \o <<":">> \o FormatString(f.filepath)
    \o <<",">> \o FormatString(LastReadKey) \o <<":">> \o FormatU64(f.last_read)
    \o <<",">> \o FormatString(PageNumKey) \o <<":">> \o FormatU64(f.page_num)
    \o <<"}">>

RECURSIVE FormatElements(_)
FormatElements(files) ==
    IF files = <<>> THEN <<>>
    ELSE IF Len(files) = 1 THEN FormatFileInfo(files[1])
    ELSE FormatFileInfo(Head(files)) \o <<",">> \o FormatElements(Tail(files))

\* serde_json::to_string(&files) (main.rs:373)
to_string(files) == <<"[">> \o FormatElements(files) \o <<"]">>

(***************************************************************************)
(* serde_json::from_str into Vec<FileInfo>: a parse result is              *)
(* [ok, val, next], next being the index after the text consumed.          *)
(***************************************************************************)
ParseFail == [ok |-> FALSE, val |-> <<>>, next |-> 0]

ParseOk(v, n) == [ok |-> TRUE, val |-> v, next |-> n]

CharAt(t, i) == IF i \in 1..Len(t) THEN t[i] ELSE "EOF"

RECURSIVE SkipWhitespace(_, _)
SkipWhitespace(t, i) ==
    IF CharAt(t, i) \in Whitespace THEN SkipWhitespace(t, i + 1) ELSE i

\* the character an escape sequence \c stands for; "" when c starts none
Unescape(c) ==
    IF c = Quote THEN Quote
    ELSE IF c = Backslash THEN Backslash
    ELSE IF c = "/" THEN "/"
    ELSE IF c = "n" THEN "\n"
    ELSE IF c = "t" THEN "\t"
    ELSE IF c = "r" THEN "\r"
    ELSE ""

RECURSIVE ScanString(_, _, _)
ScanString(t, i, acc) ==
    LET ch == CharAt(t, i)
    IN  IF ch = "EOF" \/ ch \in ControlChars THEN ParseFail
        ELSE IF ch = Quote THEN ParseOk(acc, i + 1)
        ELSE IF ch = Backslash
             THEN IF Unescape(CharAt(t, i + 1)) = "" THEN ParseFail
                  ELSE ScanString(t, i + 2, Append(acc, Unescape(CharAt(t, i + 1))))
        ELSE ScanString(t, i + 1, Append(acc, ch))

\* a JSON string literal at index at
ParseString(t, at) ==
    Only({IF CharAt(t, i) = Quote THEN ScanString(t, i + 1, <<>>) ELSE ParseFail :
             i \in {at}})

RECURSIVE ScanDigits(_, _, _)
ScanDigits(t, i, acc) ==
    IF IsDigit(CharAt(t, i))
    THEN Only({IF m.overflow THEN ParseFail ELSE ScanDigits(t, i + 1, m.val) :
                  m \in {U64MulAdd10(acc, DigitValue(CharAt(t, i)))}})
    ELSE IF CharAt(t, i) \in {".", "e", "E"} THEN ParseFail
    ELSE ParseOk(acc, i)

\* a JSON number at index at that fits a u64: no sign, no leading zero, no
\* fraction or exponent
ParseU64(t, at) ==
    Only({IF CharAt(t, i) = "0"
          THEN IF IsDigit(CharAt(t, i + 1)) \/ CharAt(t, i + 1) \in {".", "e", "E"}
               THEN ParseFail
               ELSE ParseOk(U64Zero, i + 1)
          ELSE IF IsDigit(CharAt(t, i)) THEN ScanDigits(t, i, U64Zero)
          ELSE ParseFail :
             i \in {at}})

\* rec with the field named key set to val
WithField(rec, key, val) ==
    IF key = NameKey THEN [rec EXCEPT !.name = val]
    ELSE IF key = FilepathKey THEN [rec EXCEPT !.filepath = val]
    ELSE IF key = LastReadKey THEN [rec EXCEPT !.last_read = val]
    ELSE [rec EXCEPT !.page_num = val]

\* the value of the member named key at index at: a string or a u64
ParseField(t, key, at) ==
    IF key \in {NameKey, FilepathKey} THEN ParseString(t, at) ELSE ParseU64(t, at)

\* what may follow "key": value, the key k and the value v being parsed: a
\* comma and more members, or the closing brace once every key is there
RECURSIVE ParseMembers(_, _, _, _)
AfterMember(t, rec, seen, k, v) ==
    Only({IF CharAt(t, after) = ","
          THEN ParseMembers(t, after + 1, WithField(rec, k.val, v.val),
                            seen \cup {k.val})
          ELSE IF CharAt(t, after) = "}" /\ seen \cup {k.val} = FieldKeys
               THEN ParseOk(WithField(rec, k.val, v.val), after + 1)
          ELSE ParseFail :
             after \in {SkipWhitespace(t, v.next)}})

\* the colon and the value that follow the key k
AfterKey(t, rec, seen, k) ==
    Only({IF CharAt(t, colon) # ":" THEN ParseFail
          ELSE Only({IF ~v.ok THEN ParseFail ELSE AfterMember(t, rec, seen, k, v) :
                        v \in {ParseField(t, k.val, SkipWhitespace(t, colon + 1))}}) :
             colon \in {SkipWhitespace(t, k.next)}})

\* the members of one object from index at on; seen holds the keys read so
\* far.  A key that is unknown or repeated, or a missing one, is an error.
ParseMembers(t, at, rec, seen) ==
    Only({IF ~k.ok \/ k.val \notin FieldKeys \/ k.val \in seen THEN ParseFail
          ELSE AfterKey(t, rec, seen, k) :
             k \in {ParseString(t, SkipWhitespace(t, at))}})

ParseFileInfo(t, i) ==
    IF CharAt(t, i) = "{"
    THEN ParseMembers(t, i + 1, EmptyFileInfo, {})
    ELSE ParseFail

\* what may follow the element e: a comma and more elements, or the end
RECURSIVE ParseElements(_, _, _)
AfterElement(t, acc, e) ==
    Only({IF CharAt(t, after) = ","
          THEN ParseElements(t, after + 1, Append(acc, e.val))
          ELSE IF CharAt(t, after) = "]"
               THEN ParseOk(Append(acc, e.val), after + 1)
          ELSE ParseFail :
             after \in {SkipWhitespace(t, e.next)}})

ParseElements(t, at, acc) ==
    Only({IF ~e.ok THEN ParseFail ELSE AfterElement(t, acc, e) :
             e \in {ParseFileInfo(t, SkipWhitespace(t, at))}})

ParseArray(t, i) ==
    IF CharAt(t, i) # "[" THEN ParseFail
    ELSE Only({IF CharAt(t, j) = "]" THEN ParseOk(<<>>, j + 1)
               ELSE ParseElements(t, j, <<>>) :
                  j \in {SkipWhitespace(t, i + 1)}})

\* serde_json::from_str(data) (main.rs:41): the whole text must be one array
from_str(text) ==
    Only({Only({IF a.ok /\ SkipWhitespace(t, a.next) = Len(t) + 1
                THEN a ELSE ParseFail :
                   a \in {ParseArray(t, SkipWhitespace(t, 1))}}) :
             t \in {text}})

(***************************************************************************)
(* The registry operations of interface.rs, as functions of the registry   *)
(***************************************************************************)
\* new_file(filename, name): pushes a record; last_read and page_num are 0
new_file(files, filename, name) ==
    Append(files, FileInfo(name, filename, U64Zero, U64Zero))

\* the records of files that carry this display name
CountNamed(files, name) == Cardinality({i \in DOMAIN files : files[i].name = name})

\* delete_file(name): `stored_files.pop(file)` for every record named name.
\* Vec::pop takes no argument, so the source admits two readings: the
\* matching records go ("matching"), or one record goes from the back for
\* each match ("last").
PopReadings == {"matching", "last"}

\* the functions of interface.rs declare no return type: they return ()
Unit == "()"

delete_file(files, name, reading) ==
    [files |-> IF reading = "matching"
               THEN SelectSeq(files, LAMBDA f : f.name # name)
               ELSE SubSeq(files, 1, Len(files) - CountNamed(files, name)),
     ret |-> Unit]

\* rename(new_name, old_name): every record named old_name gets new_name
rename(files, new_name, old_name) ==
    [files |-> [i \in DOMAIN files |->
                   IF files[i].name = old_name
                   THEN [files[i] EXCEPT !.name = new_name]
                   ELSE files[i]],
     ret |-> Unit]

(***************************************************************************)
(* FileManager (mod interface, as main.rs uses it).  Its methods are not   *)
(* in interface.rs; they follow the session operations of the design       *)
(* document, on top of new_file above.                                     *)
(***************************************************************************)
None == <<>>

Some(v) == <<v>>

\* the documents the user can pick: two files of the same name
PathA == <<"/", "a", "/", "x">>

PathB == <<"/", "b", "/", "x">>

Paths == {PathA, PathB}

\* the display name a rename can give; it needs escaping in JSON
NewName == <<"c", Quote, Backslash>>

RECURSIVE FileName(_)
\* the display name derived from a path: what follows its last "/"
FileName(path) ==
    IF \E i \in DOMAIN path : path[i] = "/"
    THEN FileName(Tail(path))
    ELSE path

Names == {FileName(p) : p \in Paths} \cup {NewName}

\* add_new_file() once the user has picked path: openNew
add_new_file(files, path) ==
    [files |-> new_file(files, path, FileName(path)),
     cur_path |-> Some(path),
     cur_file_info |-> FileInfo(FileName(path), path, U64Zero, U64Zero)]

\* the indices of the records for path
IndicesOf(files, path) == {i \in DOMAIN files : files[i].filepath = path}

\* set_cur_path(path); set_cur_file_info(path), having found the record at
\* index i (0: there is none, and the path is opened as a new document)
set_cur_file_info(files, path, i) ==
    IF i = 0
    THEN add_new_file(files, path)
    ELSE [files |-> files, cur_path |-> Some(path), cur_file_info |-> files[i]]

\* add_file(): the open document's record, with the page it is at, is
\* appended to the registry
add_file(files, path, info) ==
    IF path = None THEN files ELSE Append(files, info)

(***************************************************************************)
(* on_set_font_size (main.rs:327-350): i32 arithmetic on the 32-bit        *)
(* pattern, two limbs of 16 bits, high limb first                          *)
(***************************************************************************)
I32Of(n) ==
    IF n >= 0
    THEN <<n \div LimbBase, n % LimbBase>>
    ELSE <<LimbBase - 1 - ((-n - 1) \div LimbBase),
           LimbBase - 1 - ((-n - 1) % LimbBase)>>

I32Negative(x) == x[1] >= 2 ^ 15

\* -x for a negative x, as limbs (2^31 is <<2^15, 0>>)
I32Magnitude(x) ==
    <<LimbBase - 1 - x[1] + (IF x[2] = 0 THEN 1 ELSE 0),
      (LimbBase - x[2]) % LimbBase>>

\* font * 10: the wrapped product, and whether the true product is not an i32
I32Mul10(x) ==
    LET lo == x[2] * 10
        hi == x[1] * 10 + lo \div LimbBase
        m == I32Magnitude(x)
        mlo == m[2] * 10
        mhi == m[1] * 10 + mlo \div LimbBase
    IN  [val |-> <<hi % LimbBase, lo % LimbBase>>,
         overflow |-> IF I32Negative(x)
                      THEN mhi > 2 ^ 15 \/ (mhi = 2 ^ 15 /\ mlo % LimbBase > 0)
                      ELSE hi >= 2 ^ 15]

\* font += d for a digit d
I32AddDigit(x, d) ==
    LET lo == x[2] + d
        hi == x[1] + lo \div LimbBase
    IN  [val |-> <<hi % LimbBase, lo % LimbBase>>,
         overflow |-> ~I32Negative(x) /\ hi >= 2 ^ 15]

\* a character that is numeric to char::is_numeric and no digit to
\* char::to_digit(10)
SuperscriptTwo == "^2"

is_numeric(ch) == IsDigit(ch) \/ ch = SuperscriptTwo

to_digit(ch) == IF IsDigit(ch) THEN Some(DigitValue(ch)) ELSE None

\* the loop, or the callback, has panicked
FontPanic == [panic |-> TRUE, font |-> <<0, 0>>, numeric |-> FALSE, value |-> 0]

\* the loop of main.rs:331-339 from character i on: the font and the flag
\* it ends with, or the panic of an overflow (in a build with
\* overflow_checks) or of the unwrap()
RECURSIVE FontLoop(_, _, _, _)
FontLoop(new_size, i, font, overflow_checks) ==
    IF i > Len(new_size)
    THEN [panic |-> FALSE, font |-> font, numeric |-> TRUE, value |-> 0]
    ELSE Only({
           IF overflow_checks /\ m.overflow THEN FontPanic
           ELSE IF ~is_numeric(new_size[i])
           THEN [panic |-> FALSE, font |-> m.val, numeric |-> FALSE, value |-> 0]
           ELSE IF to_digit(new_size[i]) = None THEN FontPanic
           ELSE Only({
                  IF overflow_checks /\ a.overflow THEN FontPanic
                  ELSE FontLoop(new_size, i + 1, a.val, overflow_checks)
                  : a \in {I32AddDigit(m.val, to_digit(new_size[i])[1])}})
           : m \in {I32Mul10(font)}})

\* main.rs:340-349: what the callback returns for the font it ends with
ClampFont(font) ==
    IF ~I32Negative(font) /\ (font[1] > 0 \/ font[2] > 256) THEN 256
    ELSE IF I32Negative(font) \/ font = I32Of(0) THEN 1
    ELSE font[2]

\* the outcome of on_set_font_size: the value it returns, or FontPanic
set_font_size(new_size, old_font, overflow_checks) ==
    Only({IF r.panic THEN FontPanic
          ELSE [r EXCEPT !.value =
                   ClampFont(IF r.numeric THEN r.font ELSE I32Of(old_font))]
          : r \in {FontLoop(new_size, 1, I32Of(0), overflow_checks)}})

\* a call of on_set_font_size: its arguments, the build, how far it is
\* ("no call", "pending", "returned", "panicked") and the value returned
FontCall(new_size, old_font, overflow_checks, status, ret) ==
    [new_size |-> new_size, old_font |-> old_font,
     overflow_checks |-> overflow_checks, status |-> status, ret |-> ret]

\* the text editor has not asked for a font size
NoFontCall == FontCall(<<>>, 0, FALSE, "no call", 0)

(***************************************************************************)
(* State                                                                   *)
(***************************************************************************)
VARIABLES
    proc,           \* "off" (not started yet), "running", "failed" (main
                    \* returned Err), "panicked", "exited" (main returned Ok)
    database,       \* database.json: None when absent, else Some(text)
    stored_files,   \* the registry: FileManager's files
    cur_path,       \* Option<String>: the open document
    cur_file_info,  \* the open document's record; page_num is the page cursor
    active_page,    \* the page of the UI shown (app.set_active_page)
    mutex,          \* holder of the Mutex<FileManager>, 0 when free
    pc,             \* per thread: "idle", "locked" (in a callback, past its
                    \* lock()), "close_write" (on_close_requested, past to_string)
    json,           \* per thread: the local `json` of on_close_requested
    font_call       \* the call of on_set_font_size by the text editor

vars == <<proc, database, stored_files, cur_path, cur_file_info,
          active_page, mutex, pc, json, font_call>>

Threads == 1..NumThreads

\* what pdfium.load_pdf_from_file may find when a callback opens the
\* document: it cannot be read (None), or it has 0..MaxPages pages
PdfStates == {None} \cup {Some(n) : n \in 0..MaxPages}

(***************************************************************************)
(* database.json as the program may find it at startup                     *)
(***************************************************************************)
SnapshotRecord == FileInfo(NewName, PathA, U64Zero, U64Max)

ValidSnapshot == to_string(<<SnapshotRecord>>)

\* what an interrupted or foreign write leaves: not a JSON array
TruncatedSnapshot == SubSeq(ValidSnapshot, 1, Len(ValidSnapshot) - 2)

\* a snapshot whose page_num is 2^16: beyond any page index
WrappedRecord == FileInfo(FileName(PathB), PathB, U64Zero, <<0, 0, 1, 0>>)

WrappedSnapshot == to_string(<<WrappedRecord>>)

InitialDatabases ==
    {None, Some(<<>>), Some(ValidSnapshot), Some(TruncatedSnapshot),
     Some(WrappedSnapshot)}

\* a process that is not running has no memory, threads or lock
NoProcess ==
    /\ stored_files = <<>>
    /\ cur_path = None
    /\ cur_file_info = EmptyFileInfo
    /\ active_page = 0
    /\ mutex = 0
    /\ pc = [c \in Threads |-> "idle"]
    /\ json = [c \in Threads |-> <<>>]
    /\ font_call = NoFontCall

Init ==
    /\ proc = "off"
    /\ database \in InitialDatabases
    /\ NoProcess

\* the process ends: by a panic, by main returning Err, or by main returning
\* Ok after the event loop
ProcessEnds(how) ==
    /\ proc' = how
    /\ stored_files' = <<>>
    /\ cur_path' = None
    /\ cur_file_info' = EmptyFileInfo
    /\ active_page' = 0
    /\ mutex' = 0
    /\ pc' = [c \in Threads |-> "idle"]
    /\ json' = [c \in Threads |-> <<>>]
    /\ font_call' = NoFontCall

\* txt_file::read_file("database.json") and the match on it (main.rs:38-45):
\* the registry main starts with, or the error it returns
LoadDatabase(db) ==
    IF db = None \/ db = Some(<<>>)
    THEN [ok |-> TRUE, files |-> <<>>]
    ELSE LET r == from_str(db[1])
         IN  [ok |-> r.ok, files |-> r.val]

\* main (main.rs:27-47): the program is started, for the first time or again
main ==
    /\ proc # "running"
    /\ LET loaded == LoadDatabase(database)
       IN  IF loaded.ok
           THEN /\ proc' = "running"
                /\ stored_files' = loaded.files
                /\ UNCHANGED <<cur_path, cur_file_info, active_page,
                               mutex, pc, json, font_call>>
           ELSE ProcessEnds("failed")
    /\ UNCHANGED database

(***************************************************************************)
(* Callbacks.  Each starts with cloned_file_manager.lock().unwrap() and    *)
(* holds the guard until its closure returns.                              *)
(***************************************************************************)
\* a lock() that never waits
MutexIgnored == TRUE

MutexFree == mutex = 0

\* lock(): a callback is fired and takes the mutex
Lock(c) ==
    /\ proc = "running"
    /\ pc[c] = "idle"
    /\ MutexFree
    /\ mutex' = c
    /\ pc' = [pc EXCEPT ![c] = "locked"]
    /\ UNCHANGED <<proc, database, stored_files, cur_path, cur_file_info,
                   active_page, json, font_call>>

\* the closure returns: the guard is dropped
Return(c) ==
    /\ pc' = [pc EXCEPT ![c] = "idle"]
    /\ mutex' = 0
    /\ json' = [json EXCEPT ![c] = <<>>]
    /\ UNCHANGED font_call

\* a panic unwinds the thread of the event loop and ends the process
Panic == ProcessEnds("panicked") /\ UNCHANGED database

\* on_open_file (main.rs:62-72)
on_open_file(c) ==
    /\ pc[c] = "locked"
    /\ \/ \E path \in Paths :
            LET opened == add_new_file(stored_files, path)
            IN  /\ Len(stored_files) < MaxFiles
                /\ stored_files' = opened.files
                /\ cur_path' = opened.cur_path
                /\ cur_file_info' = opened.cur_file_info
                /\ active_page' = 1
       \/ \* the file dialog is cancelled: add_new_file() returns false
          UNCHANGED <<stored_files, cur_path, cur_file_info, active_page>>
    /\ Return(c)
    /\ UNCHANGED <<proc, database>>

\* on_open_recent_file (main.rs:83-94)
on_open_recent_file(c, file_path) ==
    /\ pc[c] = "locked"
    /\ LET found == IndicesOf(stored_files, file_path)
       IN  \E i \in (IF found = {} THEN {0} ELSE found) :
              LET opened == set_cur_file_info(stored_files, file_path, i)
              IN  /\ i = 0 => Len(stored_files) < MaxFiles
                  /\ stored_files' = opened.files
                  /\ cur_path' = opened.cur_path
                  /\ cur_file_info' = opened.cur_file_info
      /\ active_page' = 1
    /\ Return(c)
    /\ UNCHANGED <<proc, database>>

\* the (name, filepath) pairs on_get_recent_files hands to the UI
RecentList(files) == [i \in DOMAIN files |-> <<files[i].name, files[i].filepath>>]

\* on_get_recent_files (main.rs:105-120); it returns RecentList(stored_files)
on_get_recent_files(c) ==
    /\ pc[c] = "locked"
    /\ Return(c)
    /\ UNCHANGED <<proc, database, stored_files, cur_path, cur_file_info,
                   active_page>>

\* a count that starts at 1
NumRecentFilesFromOne(files) == Len(files) + 1

\* the count on_get_num_recent_files returns (main.rs:134-140)
NumRecentFiles(files) == Len(files)

\* on_get_num_recent_files (main.rs:131-142)
on_get_num_recent_files(c) ==
    /\ pc[c] = "locked"
    /\ Return(c)
    /\ UNCHANGED <<proc, database, stored_files, cur_path, cur_file_info,
                   active_page>>

\* `current_page as u16`: the low 16 bits
AsU16(x) == x[4]

\* on_display (main.rs:176-203): the page index rendered, None when one of
\* the unwraps panics
DisplayedPage(path, doc, info) ==
    IF path = None \/ doc = None THEN None
    ELSE IF AsU16(info.page_num) >= doc[1] THEN None
    ELSE Some(AsU16(info.page_num))

on_display(c, doc) ==
    /\ pc[c] = "locked"
    /\ IF DisplayedPage(cur_path, doc, cur_file_info) = None
       THEN Panic
       ELSE /\ Return(c)
            /\ UNCHANGED <<proc, database, stored_files, cur_path,
                           cur_file_info, active_page>>

\* the page cursor after on_navigate_previous (main.rs:218-221)
NavigatePrevious(num) ==
    IF U64Less(U64Zero, num) THEN U64Pred(num) ELSE num

\* the page cursors from which the model follows navigate_previous: the
\* pages of a document (from u64::MAX the way down has 2^64 steps)
MayStepBack(num) ==
    U64Less(num, U64Of(MaxPages + 1))

\* on_navigate_previous (main.rs:214-223)
on_navigate_previous(c) ==
    /\ pc[c] = "locked"
    /\ MayStepBack(cur_file_info.page_num)
    /\ cur_file_info' =
          [cur_file_info EXCEPT !.page_num = NavigatePrevious(cur_file_info.page_num)]
    /\ Return(c)
    /\ UNCHANGED <<proc, database, stored_files, cur_path, active_page>>

\* on_navigate_next with `num < len` for its condition
NavigateNextPastEnd(num, total) ==
    IF U64Less(num, U64Of(total)) THEN U64Succ(num) ELSE num

\* the page cursor after on_navigate_next, the document having total pages
\* (main.rs:241-244); num + 1 is taken modulo 2^64
NavigateNext(num, total) ==
    IF U64Less(U64Succ(num), U64Of(total)) THEN U64Succ(num) ELSE num

\* on_navigate_next (main.rs:234-246).  num + 1 at u64::MAX panics in a
\* build with overflow checks and wraps in one without.
on_navigate_next(c, doc) ==
    /\ pc[c] = "locked"
    /\ IF cur_path = None \/ doc = None
       THEN Panic
       ELSE \/ /\ cur_file_info.page_num = U64Max
               /\ Panic
            \/ /\ cur_file_info' =
                     [cur_file_info EXCEPT
                         !.page_num = NavigateNext(cur_file_info.page_num, doc[1])]
               /\ Return(c)
               /\ UNCHANGED <<proc, database, stored_files, cur_path,
                              active_page>>

\* format!("{} of {}", cur, total) (main.rs:258)
PageLabel(cur, total) ==
    FormatU64(cur) \o <<" ", "o", "f", " ">> \o FormatU64(U64Of(total))

\* on_get_page (main.rs:249-260); it returns PageLabel(cursor, pages)
on_get_page(c, doc) ==
    /\ pc[c] = "locked"
    /\ IF cur_path = None \/ doc = None
       THEN Panic
       ELSE /\ Return(c)
            /\ UNCHANGED <<proc, database, stored_files, cur_path,
                           cur_file_info, active_page>>

\* rename (interface.rs:34-39), called under the lock
on_rename(c, new_name, old_name) ==
    /\ pc[c] = "locked"
    /\ stored_files' = rename(stored_files, new_name, old_name).files
    /\ Return(c)
    /\ UNCHANGED <<proc, database, cur_path, cur_file_info, active_page>>

\* delete_file (interface.rs:25-32), called under the lock
on_delete_file(c, name) ==
    /\ pc[c] = "locked"
    /\ \E reading \in PopReadings :
          stored_files' = delete_file(stored_files, name, reading).files
    /\ Return(c)
    /\ UNCHANGED <<proc, database, cur_path, cur_file_info, active_page>>

\* on_close_requested, first half (main.rs:369-373): the session is folded
\* into the registry and the registry serialised
on_close_requested(c) ==
    /\ pc[c] = "locked"
    /\ cur_path # None => Len(stored_files) < MaxFiles
    /\ LET files == add_file(stored_files, cur_path, cur_file_info)
       IN  /\ stored_files' = files
           /\ json' = [json EXCEPT ![c] = to_string(files)]
    /\ pc' = [pc EXCEPT ![c] = "close_write"]
    /\ UNCHANGED <<proc, database, cur_path, cur_file_info, active_page,
                   mutex, font_call>>

\* txt_file::write_to_file: the file holds the text, or the write fails and
\* the file is as it was
WriteOutcomes(db, text) == {Some(text), db}

\* on_close_requested, second half (main.rs:375-382): the snapshot is
\* written and the window hidden, which ends the event loop of main.rs:385
\* and with it the process
on_close_write(c) ==
    /\ pc[c] = "close_write"
    /\ database' \in WriteOutcomes(database, json[c])
    /\ ProcessEnds("exited")

Callbacks ==
    \/ \E c \in Threads : Lock(c)
    \/ \E c \in Threads : on_open_file(c)
    \/ \E c \in Threads, file_path \in Paths : on_open_recent_file(c, file_path)
    \/ \E c \in Threads : on_get_recent_files(c)
    \/ \E c \in Threads : on_get_num_recent_files(c)
    \/ \E c \in Threads, doc \in PdfStates : on_display(c, doc)
    \/ \E c \in Threads : on_navigate_previous(c)
    \/ \E c \in Threads, doc \in PdfStates : on_navigate_next(c, doc)
    \/ \E c \in Threads, doc \in PdfStates : on_get_page(c, doc)
    \/ \E c \in Threads, old_name \in Names : on_rename(c, NewName, old_name)
    \/ \E c \in Threads, name \in Names : on_delete_file(c, name)
    \/ \E c \in Threads : on_close_requested(c)
    \/ \E c \in Threads : on_close_write(c)

\* The program over any number of runs: started, used, closed or crashed,
\* and started again on the database.json it left.
Next == main \/ Callbacks

Spec == Init /\ [][Next]_vars

\* One run of the program, from any database.json it may find.
start == proc = "off" /\ main

NextRun == start \/ Callbacks

SpecRun == Init /\ [][NextRun]_vars

\* The persistence cycle: documents are opened and renamed, the window is
\* closed, the program is started again.
NextPersist ==
    \/ main
    \/ \E c \in Threads : Lock(c)
    \/ \E c \in Threads : on_open_file(c)
    \/ \E c \in Threads, old_name \in Names : on_rename(c, NewName, old_name)
    \/ \E c \in Threads : on_close_requested(c)
    \/ \E c \in Threads : on_close_write(c)

\* the records over the names, the paths and the extreme values of the two
\* numbers, and the registries of up to len of them
Records ==
    {FileInfo(n, p, s[1], s[2]) :
        n \in Names, p \in Paths,
        s \in {<<U64Zero, U64Max>>, <<U64Max, U64Zero>>}}

RECURSIVE Registries(_)
Registries(len) ==
    IF len = 0 THEN {<<>>}
    ELSE Registries(len - 1)
         \cup {Append(r, f) : r \in {q \in Registries(len - 1) : Len(q) = len - 1},
                              f \in Records}

\* database.json holds what an earlier run saved, whatever its registry was
InitPersist ==
    /\ proc = "off"
    /\ database \in InitialDatabases
                    \cup {Some(to_string(r)) : r \in Registries(MaxFiles)}
    /\ NoProcess

SpecPersist == InitPersist /\ [][NextPersist]_vars

(***************************************************************************)
(* The claims of the specification                                         *)
(***************************************************************************)
\* the registry a snapshot is parsed into (empty when it cannot be)
SnapshotFiles == LoadDatabase(database).files

UniqueFilepaths(files) ==
    \A i, j \in DOMAIN files : files[i].filepath = files[j].filepath => i = j

\* C1: the registry and the persisted snapshot hold at most one record per
\* filepath, after any sequence of operations and restarts.
C1_FilepathUnique ==
    /\ UniqueFilepaths(stored_files)
    /\ UniqueFilepaths(SnapshotFiles)

\* files without the records for path
WithoutPath(files, path) ==
    SelectSeq(files, LAMBDA f : f.filepath # path)

\* C2: an open of path p (the upsert) leaves p's record, with page_num 0 when
\* it is new, at the front of the registry, and behind it the other records
\* in the order they had.
C2_UpsertToFront ==
    [][\A c \in Threads :
          on_open_file(c) /\ cur_path' # None /\ stored_files' # stored_files
          => /\ Head(stored_files').filepath = cur_path'[1]
             /\ Tail(stored_files') = WithoutPath(stored_files, cur_path'[1])
             /\ IndicesOf(stored_files, cur_path'[1]) = {}
                   => Head(stored_files').page_num = U64Zero]_vars

\* C3: any two adjacent records of the registry are in strictly descending
\* order of last_read.
C3_DescendingLastRead ==
    \A i \in DOMAIN stored_files :
        i + 1 \in DOMAIN stored_files
        => U64Less(stored_files[i + 1].last_read, stored_files[i].last_read)

\* C4: a rename changes the name of the record of one path only, and nothing
\* else: the records of every other path, those sharing the old name among
\* them, are as they were, and so are the other fields and the positions.
C4_RenameOneRecord ==
    [][\A c \in Threads, old_name \in Names :
          on_rename(c, NewName, old_name)
          => /\ Len(stored_files') = Len(stored_files)
             /\ \E p \in Paths : \A i \in DOMAIN stored_files :
                   /\ stored_files[i].filepath # p
                         => stored_files'[i] = stored_files[i]
                   /\ stored_files'[i] =
                         [stored_files[i] EXCEPT !.name = stored_files'[i].name]]_vars

\* files without its i-th record
RemoveAt(files, i) ==
    SubSeq(files, 1, i - 1) \o SubSeq(files, i + 1, Len(files))

\* C5: a remove that finds its record decreases the count by exactly 1: it
\* removes that record and leaves the others in their order.
C5_RemoveExactlyOne ==
    [][\A c \in Threads, name \in Names :
          on_delete_file(c, name) /\ CountNamed(stored_files, name) > 0
          => /\ Len(stored_files') = Len(stored_files) - 1
             /\ \E i \in DOMAIN stored_files :
                   /\ stored_files[i].name = name
                   /\ stored_files' = RemoveAt(stored_files, i)]_vars

NotFound == "NotFound"

\* C6: a rename or remove of a record that is absent returns NotFound to its
\* caller, changes neither the registry nor the session, and is not fatal.
C6_AbsentIsNotFound ==
    [][/\ \A c \in Threads, old_name \in Names :
             on_rename(c, NewName, old_name) /\ CountNamed(stored_files, old_name) = 0
             => /\ rename(stored_files, NewName, old_name).ret = NotFound
                /\ UNCHANGED <<stored_files, cur_path, cur_file_info, proc>>
       /\ \A c \in Threads, name \in Names :
             on_delete_file(c, name) /\ CountNamed(stored_files, name) = 0
             => /\ \A reading \in PopReadings :
                      delete_file(stored_files, name, reading).ret = NotFound
                /\ UNCHANGED <<stored_files, cur_path, cur_file_info, proc>>]_vars

\* C7: on page k of a document, navigate_previous leaves the cursor at 0 when
\* k = 0 and otherwise moves it to k - 1; navigate_next on a document of n
\* pages leaves it where it is when n <= 0 or k = n - 1 and otherwise moves
\* it to k + 1; so a cursor within 0..n-1 stays within 0..n-1.
C7_NavigationClamps ==
    [][/\ \A c \in Threads, k \in 0..MaxPages :
             on_navigate_previous(c) /\ cur_file_info.page_num = U64Of(k)
             => cur_file_info'.page_num = U64Of(IF k = 0 THEN 0 ELSE k - 1)
       /\ \A c \in Threads, n \in 0..MaxPages, k \in 0..MaxPages :
             /\ on_navigate_next(c, Some(n))
             /\ proc' = "running"
             /\ cur_file_info.page_num = U64Of(k)
             /\ n <= 0 \/ k <= n - 1
             => /\ cur_file_info'.page_num =
                      U64Of(IF n <= 0 \/ k = n - 1 THEN k ELSE k + 1)
                /\ k <= n - 1
                      => \E m \in 0..(n - 1) : cur_file_info'.page_num = U64Of(m)]_vars

\* navigate_next has taken the cursor of an open document to the last page of
\* a document of MaxPages pages
C7_Witness ==
    /\ proc = "running"
    /\ cur_path # None
    /\ MaxPages > 1
    /\ cur_file_info.page_num = U64Of(MaxPages - 1)

\* C8: the snapshot written at shutdown parses back into the registry that
\* was saved: the same records in the same order, each with the same name,
\* filepath, last_read and page_num; and that is the registry the next run
\* starts with.
C8_RoundTrip ==
    [][/\ \A c \in Threads :
             on_close_write(c) /\ database' = Some(json[c])
             => LoadDatabase(database') = [ok |-> TRUE, files |-> stored_files]
       /\ main /\ proc = "exited"
             => proc' = "running" /\ stored_files' = SnapshotFiles]_vars

\* the program runs again on a snapshot the run before it wrote: MaxFiles
\* records, one with a name that needs escaping, one that run created
C8_Witness ==
    /\ proc = "running"
    /\ cur_path = None
    /\ Len(stored_files) = MaxFiles
    /\ database = Some(to_string(stored_files))
    /\ \E i \in DOMAIN stored_files : stored_files[i].name = NewName
    /\ \E i \in DOMAIN stored_files : stored_files[i] \notin Records

\* C9: the program starts whatever database.json holds: it is never left
\* with main having returned the parse error.
C9_AlwaysStarts == proc # "failed"

\* C10: at most one callback is past its lock() at a time, and it holds the
\* mutex; the close callback holds it from the fold to the write, and the
\* snapshot it writes is the registry as the fold left it.
C10_MutualExclusion ==
    /\ \A c, d \in Threads : pc[c] # "idle" /\ pc[d] # "idle" => c = d
    /\ \A c \in Threads : pc[c] # "idle" => mutex = c
    /\ \A c \in Threads :
          pc[c] = "close_write" => json[c] = to_string(stored_files)

\* the close callback is between the fold of an open document and the write,
\* another thread waiting
C10_Witness ==
    \E c \in Threads :
        /\ pc[c] = "close_write"
        /\ cur_path # None
        /\ Len(stored_files) > 0
        /\ \E d \in Threads : d # c /\ pc[d] = "idle"

\* what the thread of a callback does once it has the lock: the closure of
\* the callback runs, synchronously, to its end
CallbackBody(c) ==
    \/ on_open_file(c)
    \/ \E file_path \in Paths : on_open_recent_file(c, file_path)
    \/ on_get_recent_files(c)
    \/ on_get_num_recent_files(c)
    \/ \E doc \in PdfStates : on_display(c, doc)
    \/ on_navigate_previous(c)
    \/ \E doc \in PdfStates : on_navigate_next(c, doc)
    \/ \E doc \in PdfStates : on_get_page(c, doc)
    \/ \E old_name \in Names : on_rename(c, NewName, old_name)
    \/ \E name \in Names : on_delete_file(c, name)
    \/ on_close_requested(c)
    \/ on_close_write(c)

\* One run in which no closure stops half way; when the UI fires a callback
\* is left open.
SpecLive ==
    /\ Init
    /\ [][NextRun]_vars
    /\ \A c \in Threads : WF_vars(CallbackBody(c))

\* C11: a callback that has taken the lock ends, normally or by failing, and
\* then the mutex is free and usable: the process is still there for the
\* next callback to lock it (or has ended by its window being closed).
C11_GateReleased ==
    \A c \in Threads :
        (pc[c] = "locked") ~> (mutex = 0 /\ proc \in {"running", "exited"})

\* C12: close folds the open document into the registry by updating its
\* record: the count is unchanged and the record of cur_path has the page of
\* the cursor; with no document open the registry is unchanged and the
\* snapshot to be written is the registry as it was.
C12_CloseUpdates ==
    [][\A c \in Threads :
          on_close_requested(c)
          => IF cur_path # None
             THEN /\ Len(stored_files') = Len(stored_files)
                  /\ \E i \in IndicesOf(stored_files', cur_path[1]) :
                        stored_files'[i].page_num = cur_file_info.page_num
             ELSE /\ stored_files' = stored_files
                  /\ json'[c] = to_string(stored_files)]_vars

\* C13: open_recent of a path makes it the open document; when the registry
\* has a record for the path the cursor is that record's page_num and the
\* registry is as it was; when it has none, a record for the path is created
\* at the front and the cursor is 0.
C13_OpenRecent ==
    [][\A c \in Threads, file_path \in Paths :
          on_open_recent_file(c, file_path)
          => /\ cur_path' = Some(file_path)
             /\ IF IndicesOf(stored_files, file_path) # {}
                THEN /\ stored_files' = stored_files
                     /\ \E i \in IndicesOf(stored_files, file_path) :
                           cur_file_info'.page_num = stored_files[i].page_num
                ELSE /\ Head(stored_files').filepath = file_path
                     /\ Tail(stored_files') = stored_files
                     /\ cur_file_info'.page_num = U64Zero]_vars

\* C15: a write of the snapshot that fails does not end the session: the
\* close callback returns, the registry and the session in memory are what
\* they were before the write, and the program stays up for a later save.
C15_WriteFailureKeepsSession ==
    [][\A c \in Threads :
          on_close_write(c) /\ database' # Some(json[c])
          => /\ proc' = "running"
             /\ mutex' = 0
             /\ UNCHANGED <<stored_files, cur_path, cur_file_info>>]_vars

\* C16: the list and the count of the recent documents are read-only: they
\* leave every record, the order of the registry, the session and the
\* snapshot as they were; the count is the number of entries of the list,
\* which names the records in the order of the registry.
C16_ListAndCountReadOnly ==
    [][\A c \in Threads :
          on_get_recent_files(c) \/ on_get_num_recent_files(c)
          => /\ UNCHANGED <<stored_files, cur_path, cur_file_info, database, proc>>
             /\ NumRecentFiles(stored_files') = Len(RecentList(stored_files'))
             /\ \A i \in DOMAIN stored_files' :
                   RecentList(stored_files')[i] =
                      <<stored_files[i].name, stored_files[i].filepath>>]_vars

\* a callback has the lock, a document is open and the registry holds
\* MaxFiles records for the list and the count to go through
C16_Witness ==
    \E c \in Threads :
        /\ pc[c] = "locked"
        /\ cur_path # None
        /\ Len(stored_files) = MaxFiles

\* C17: whenever a page callback finds a document open, of n >= 1 pages, the
\* cursor is a page of it: 0 <= cursor < n; also when the cursor was
\* restored from a record of the snapshot.
C17_CursorWithinDocument ==
    [][\A c \in Threads, n \in 1..MaxPages :
          /\ cur_path # None
          /\ \/ on_display(c, Some(n))
             \/ on_navigate_next(c, Some(n))
             \/ on_get_page(c, Some(n))
          => U64Less(cur_file_info.page_num, U64Of(n))]_vars

\* C18: a page callback fired while no document is open does not end the
\* process and leaves the registry and the session as they were.
C18_NoDocumentIsHarmless ==
    [][\A c \in Threads, doc \in PdfStates :
          /\ cur_path = None
          /\ \/ on_display(c, doc)
             \/ on_navigate_previous(c)
             \/ on_navigate_next(c, doc)
             \/ on_get_page(c, doc)
          => /\ proc' = "running"
             /\ UNCHANGED <<stored_files, cur_path, cur_file_info>>]_vars

\* the cursor as a 16-bit page index, widened again
Widened(x) == <<0, 0, 0, AsU16(x)>>

\* C19: the page index on_display hands to the renderer is the cursor: the
\* cursor of an open document is below 2^16, so `as u16` does not change it,
\* and the page rendered is the page of the label.
C19_PageIndexIsCursor ==
    /\ cur_path # None => Widened(cur_file_info.page_num) = cur_file_info.page_num
    /\ \A doc \in PdfStates :
          DisplayedPage(cur_path, doc, cur_file_info) # None
          => PageLabel(U64Of(DisplayedPage(cur_path, doc, cur_file_info)[1]), doc[1])
                = PageLabel(cur_file_info.page_num, doc[1])

(***************************************************************************)
(* The text editor's font size                                             *)
(***************************************************************************)
\* on_set_font_size (main.rs:327-350): the call returns, or panics
on_set_font_size ==
    /\ proc = "running"
    /\ font_call.status = "pending"
    /\ \E r \in {set_font_size(font_call.new_size, font_call.old_font,
                                font_call.overflow_checks)} :
          font_call' =
             [font_call EXCEPT
                 !.status = IF r.panic THEN "panicked" ELSE "returned",
                 !.ret = r.value]
    /\ UNCHANGED <<proc, database, stored_files, cur_path, cur_file_info,
                   active_page, mutex, pc, json>>

\* the digits and the other characters the sizes typed are made of
FontDigits == {"0", "3"}

NonDigits == {"x", SuperscriptTwo}

RECURSIVE DigitStrings(_)
DigitStrings(len) ==
    IF len = 0 THEN {<<>>}
    ELSE UNION {shorter \cup {Append(t, d) : t \in {u \in shorter : Len(u) = len - 1},
                                             d \in FontDigits}
                : shorter \in {DigitStrings(len - 1)}}

\* sizes of up to MaxDigits characters: digits, then at most one character
\* that is no digit
FontInputs ==
    DigitStrings(MaxDigits)
    \cup {Append(t, ch) : t \in DigitStrings(MaxDigits - 1), ch \in NonDigits}

OldFonts == {-5, 12, 300}

\* the program runs and the text editor asks for a font size, in a build
\* with or without overflow checks
InitFont ==
    /\ proc = "running"
    /\ database = None
    /\ stored_files = <<>>
    /\ cur_path = None
    /\ cur_file_info = EmptyFileInfo
    /\ active_page = 0
    /\ mutex = 0
    /\ pc = [c \in Threads |-> "idle"]
    /\ json = [c \in Threads |-> <<>>]
    /\ font_call \in {FontCall(new_size, old_font, overflow_checks, "pending", 0) :
                         new_size \in FontInputs, old_font \in OldFonts,
                         overflow_checks \in BOOLEAN}

NextFont == on_set_font_size

SpecFont == InitFont /\ [][NextFont]_vars

\* the number a string of digits denotes, or 257 when it is above 256
RECURSIVE Denoted(_)
Denoted(t) ==
    IF t = <<>> THEN 0
    ELSE Only({IF v > 256 THEN 257 ELSE v
               : v \in {Denoted(SubSeq(t, 1, Len(t) - 1)) * 10
                           + DigitValue(t[Len(t)])}})

Clamped(n) == IF n > 256 THEN 256 ELSE IF n <= 0 THEN 1 ELSE n

\* C20: on_set_font_size returns a value in 1..256 for every input: a string
\* of digits gives the number it denotes, 256 when that is above 256 and 1
\* when it is 0 or the string is empty; an input with a character that is
\* not numeric gives old_font clamped to 1..256; no digit string overflows.
C20_FontSizeInRange ==
    font_call.status \notin {"pending", "no call"}
    => /\ font_call.status = "returned"
       /\ font_call.ret \in 1..256
       /\ (\A i \in DOMAIN font_call.new_size : IsDigit(font_call.new_size[i]))
             => font_call.ret = Clamped(Denoted(font_call.new_size))
       /\ (\E i \in DOMAIN font_call.new_size : ~is_numeric(font_call.new_size[i]))
             => font_call.ret = Clamped(font_call.old_font)

====
